---- MODULE Spec2Model ----
\* Verification model of bin/agentbox.js (OpenCode Box / AgentBox launcher):
\* input validators, requirement checks, image build, container launch and
\* the exit / signal handlers.  Strings are sequences of one-character strings.
EXTENDS Integers, Sequences, FiniteSets, TLC

\* ------------------------------------------------------------------ bounds
\* signals delivered to one run, optional host paths that may exist (the
\* first MaxProbe of Probes), milliseconds of wall clock the invocations of
\* SessionsSpec live through
MaxSignals == 2
MaxProbe == 3
MaxTick == 4
ExitCodes == {0, 1}

\* ------------------------------------------------------- string primitives
Lower == {"a","b","c","d","e","f","g","h","i","j","k","l","m",
          "n","o","p","q","r","s","t","u","v","w","x","y","z"}
Upper == {"A","B","C","D","E","F","G","H","I","J","K","L","M",
          "N","O","P","Q","R","S","T","U","V","W","X","Y","Z"}
Digit == {"0","1","2","3","4","5","6","7","8","9"}
Space == {" ", "\t", "\n"}

Includes(s, t) ==
    \E i \in 0..(Len(s) - Len(t)) : SubSeq(s, i + 1, i + Len(t)) = t

StartsWith(s, t) == Len(s) >= Len(t) /\ SubSeq(s, 1, Len(t)) = t

EndsWith(s, t) == Len(s) >= Len(t) /\ SubSeq(s, Len(s) - Len(t) + 1, Len(s)) = t

HasChar(s, cs) == \E i \in 1..Len(s) : s[i] \in cs

\* position of the first / last element of s in cs, 0 when there is none
FirstIn(s, cs) ==
    IF HasChar(s, cs)
    THEN CHOOSE i \in 1..Len(s) : s[i] \in cs /\ \A j \in 1..(i - 1) : s[j] \notin cs
    ELSE 0

LastIn(s, cs) ==
    IF HasChar(s, cs)
    THEN CHOOSE i \in 1..Len(s) : s[i] \in cs /\ \A j \in (i + 1)..Len(s) : s[j] \notin cs
    ELSE 0

CharsOf(s) == {s[i] : i \in 1..Len(s)}

\* String.prototype.trim: leading and trailing whitespace removed
Trim(s) ==
    IF \A i \in 1..Len(s) : s[i] \in Space
    THEN << >>
    ELSE SubSeq(s, FirstIn(s, CharsOf(s) \ Space), LastIn(s, CharsOf(s) \ Space))

LowerOf(c) ==
    IF c \in Upper
    THEN CHOOSE l \in Lower :
           \E k \in 1..26 :
              /\ <<"A","B","C","D","E","F","G","H","I","J","K","L","M",
                   "N","O","P","Q","R","S","T","U","V","W","X","Y","Z">>[k] = c
              /\ <<"a","b","c","d","e","f","g","h","i","j","k","l","m",
                   "n","o","p","q","r","s","t","u","v","w","x","y","z">>[k] = l
    ELSE c

ToLower(s) == [i \in 1..Len(s) |-> LowerOf(s[i])]

Reject == [ok |-> FALSE, value |-> << >>]
Accept(v) == [ok |-> TRUE, value |-> v]

\* ------------------------------------------------------------ URL parsing
SpecialSchemes == { <<"h","t","t","p">>, <<"h","t","t","p","s">>, <<"f","t","p">>,
                    <<"w","s">>, <<"w","s","s">>, <<"f","i","l","e">> }

NoUrl == [ok |-> FALSE, protocol |-> << >>, hostname |-> << >>]

\* the authority of "scheme://authority/..." : userinfo before the last "@",
\* port after the last ":" of the host part
HostOfAuthority(auth) ==
    LET at == LastIn(auth, {"@"})
        hp == SubSeq(auth, at + 1, Len(auth))
        colon == FirstIn(hp, {":"})
    IN  IF colon = 0 THEN hp ELSE SubSeq(hp, 1, colon - 1)

PortOfAuthority(auth) ==
    LET at == LastIn(auth, {"@"})
        hp == SubSeq(auth, at + 1, Len(auth))
        colon == FirstIn(hp, {":"})
    IN  IF colon = 0 THEN << >> ELSE SubSeq(hp, colon + 1, Len(hp))

HostChars == Lower \cup Upper \cup Digit \cup {".", "-", "_"}

\* tab and newline are dropped from the input before it is parsed
ParseUrl(input) ==
    LET s == SelectSeq(input, LAMBDA c : c \notin {"\t", "\n"})
        colon == FirstIn(s, {":"})
        scheme == ToLower(SubSeq(s, 1, colon - 1))
        rest == SubSeq(s, colon + 1, Len(s))
        special == scheme \in SpecialSchemes
        schemeOk == /\ colon > 1
                    /\ s[1] \in Lower \cup Upper
                    /\ \A i \in 1..(colon - 1) :
                          s[i] \in Lower \cup Upper \cup Digit \cup {"+", "-", "."}
        \* special schemes skip any run of slashes before the authority
        slashes == IF CharsOf(rest) \ {"/"} # {}
                   THEN FirstIn(rest, CharsOf(rest) \ {"/"}) - 1
                   ELSE Len(rest)
        hasAuth == IF special THEN TRUE ELSE StartsWith(rest, <<"/", "/">>)
        afterSl == IF special THEN SubSeq(rest, slashes + 1, Len(rest))
                   ELSE SubSeq(rest, 3, Len(rest))
        stop == FirstIn(afterSl, {"/", "?", "#"})
        auth == IF stop = 0 THEN afterSl ELSE SubSeq(afterSl, 1, stop - 1)
        rawHost == HostOfAuthority(auth)
        port == PortOfAuthority(auth)
        host == IF special THEN ToLower(rawHost) ELSE rawHost
    IN  IF ~schemeOk THEN NoUrl
        ELSE IF ~hasAuth
             THEN [ok |-> TRUE, protocol |-> scheme \o <<":">>, hostname |-> << >>]
        ELSE IF \/ (special /\ host = << >>)
                \/ CharsOf(host) \ HostChars # {}
                \/ CharsOf(port) \ Digit # {}
             THEN NoUrl
        ELSE [ok |-> TRUE, protocol |-> scheme \o <<":">>, hostname |-> host]

\* ------------------------------------------------------------- validators
\* the character U+0060 (grave accent) is written "BACKTICK"
\* (fault) the class has lost its ";"
DangerousCharsNoSemicolon == {"&", "|", "BACKTICK", "$", "(", ")", "{", "}", "[", "]", "<", ">"}

DangerousChars == {";", "&", "|", "BACKTICK", "$", "(", ")", "{", "}", "[", "]", "<", ">"}

\* (fault) plain http is allowed too
AllowedProtocolsWithHttp == { <<"h","t","t","p","s",":">>, <<"s","s","h",":">>, <<"g","i","t",":">>,
                              <<"h","t","t","p",":">> }

AllowedProtocols == { <<"h","t","t","p","s",":">>, <<"s","s","h",":">>, <<"g","i","t",":">> }

trustedHosts == { <<"g","i","t","h","u","b",".","c","o","m">>,
                  <<"g","i","t","l","a","b",".","c","o","m">>,
                  <<"b","i","t","b","u","c","k","e","t",".","o","r","g">>,
                  <<"d","e","v",".","a","z","u","r","e",".","c","o","m">>,
                  <<"s","s","h",".","d","e","v",".","a","z","u","r","e",".","c","o","m">> }

trustedSshHosts == { <<"g","i","t","h","u","b",".","c","o","m">>,
                     <<"g","i","t","l","a","b",".","c","o","m">>,
                     <<"b","i","t","b","u","c","k","e","t",".","o","r","g">> }

\* (fault) the pattern has lost its "^": it matches from any "git@" of the string
sshMatchUnanchored(s) ==
    LET starts == {i \in 1..Len(s) : StartsWith(SubSeq(s, i, Len(s)), <<"g","i","t","@">>)}
        from == IF starts = {} THEN 1 ELSE CHOOSE i \in starts : \A j \in starts : i <= j
        t == SubSeq(s, from, Len(s))
        body == SubSeq(t, 5, Len(t) - 4)
        colon == FirstIn(body, {":"})
        host == SubSeq(body, 1, colon - 1)
        path == SubSeq(body, colon + 1, Len(body))
    IN  IF /\ StartsWith(t, <<"g","i","t","@">>)
           /\ EndsWith(t, <<".","g","i","t">>)
           /\ Len(t) >= 8
           /\ colon > 1
           /\ \A i \in 1..Len(host) : host[i] \in Lower \cup Upper \cup Digit \cup {".", "-"}
           /\ Len(path) >= 1
           /\ \A i \in 1..Len(path) :
                 path[i] \in Lower \cup Upper \cup Digit \cup {".", "_", "/", "-"}
        THEN [ok |-> TRUE, host |-> host]
        ELSE [ok |-> FALSE, host |-> << >>]

\* /^git@([a-zA-Z0-9.-]+):([a-zA-Z0-9._/-]+)\.git$/ ; the host class has no
\* ":" so the host group ends at the first ":" after "git@"
sshMatch(s) ==
    LET body == SubSeq(s, 5, Len(s) - 4)
        colon == FirstIn(body, {":"})
        host == SubSeq(body, 1, colon - 1)
        path == SubSeq(body, colon + 1, Len(body))
    IN  IF /\ StartsWith(s, <<"g","i","t","@">>)
           /\ EndsWith(s, <<".","g","i","t">>)
           /\ Len(s) >= 8
           /\ colon > 1
           /\ \A i \in 1..Len(host) : host[i] \in Lower \cup Upper \cup Digit \cup {".", "-"}
           /\ Len(path) >= 1
           /\ \A i \in 1..Len(path) :
                 path[i] \in Lower \cup Upper \cup Digit \cup {".", "_", "/", "-"}
        THEN [ok |-> TRUE, host |-> host]
        ELSE [ok |-> FALSE, host |-> << >>]

\* the catch block: every error thrown inside the try, the protocol and host
\* errors included, lands here
sshFallback(sanitized) ==
    LET m == sshMatch(sanitized)
    IN  IF m.ok /\ m.host \in trustedSshHosts THEN Accept(sanitized) ELSE Reject

validateRepositoryUrl(repoUrl) ==
    LET sanitized == Trim(repoUrl)
        parsedUrl == ParseUrl(sanitized)
    IN  IF repoUrl = << >> THEN Reject
        ELSE IF HasChar(sanitized, DangerousChars) THEN Reject
        ELSE IF /\ parsedUrl.ok
                /\ parsedUrl.protocol \in AllowedProtocols
                /\ parsedUrl.hostname \in trustedHosts
             THEN Accept(sanitized)
        ELSE sshFallback(sanitized)

\* (fault) the length test is off by one: the limit itself is refused
exceedsOrReaches(s, max) == Len(s) >= max

\* sanitized.length > max
exceeds(s, max) == Len(s) > max

BranchInvalidChars == DangerousChars \cup {"~", "^", ":", "?", "*", "\\"} \cup Space

MaxBranchLen == 250

validateBranchName(branchName) ==
    LET sanitized == Trim(branchName)
    IN  IF branchName = << >> THEN Reject
        ELSE IF HasChar(sanitized, BranchInvalidChars) THEN Reject
        ELSE IF \/ StartsWith(sanitized, <<"-">>)
                \/ EndsWith(sanitized, <<".">>)
                \/ Includes(sanitized, <<".", ".">>)
             THEN Reject
        ELSE IF exceeds(sanitized, MaxBranchLen) THEN Reject
        ELSE Accept(sanitized)

\* (fault) the class lets the path separator through
NameCharsWithSlash == Lower \cup Upper \cup Digit \cup {".", "_", "-", "/"}

NameChars == Lower \cup Upper \cup Digit \cup {".", "_", "-"}

MaxNameLen == 100

validateRepoName(repoName) ==
    LET sanitized == Trim(repoName)
    IN  IF repoName = << >> THEN Reject
        ELSE IF sanitized = << >> \/ \E i \in 1..Len(sanitized) : sanitized[i] \notin NameChars
             THEN Reject
        ELSE IF Includes(sanitized, <<".", ".">>) \/ StartsWith(sanitized, <<".">>) THEN Reject
        ELSE IF exceeds(sanitized, MaxNameLen) THEN Reject
        ELSE Accept(sanitized)

\* path.basename(p, ext): trailing slashes dropped, last segment, then the
\* suffix ext removed unless the segment is exactly ext
basename(p, ext) ==
    LET end == LastIn(p, CharsOf(p) \ {"/"})
        q == SubSeq(p, 1, end)
        sl == LastIn(q, {"/"})
        base == SubSeq(q, sl + 1, Len(q))
    IN  IF EndsWith(base, ext) /\ base # ext
        THEN SubSeq(base, 1, Len(base) - Len(ext))
        ELSE base

\* ------------------------------------------------------------ environment
\* what the host can hand to one run: argv, SSH_AUTH_SOCK, the output of the
\* two git queries, the optional paths under the home directory
Argvs == { {}, {"--help"}, {"-h"}, {"--version"}, {"-v"}, {"-h", "-v"} }

Unset == << >>
SockValues == { Unset, <<"/","t","m","p","/","s",";","x">> }

RemoteUrls ==
    { <<"h","t","t","p","s",":","/","/","g","i","t","h","u","b",".","c","o","m","/","a","/","w",".","g","i","t">>,
      <<"g","i","t","@","g","i","t","h","u","b",".","c","o","m",":","a","/","w",".","g","i","t">>,
      <<"h","t","t","p","s",":","/","/","e","v","i","l",".","c","o","m","/","a","/","w",".","g","i","t">>,
      <<"h","t","t","p","s",":","/","/","g","i","t","h","u","b",".","c","o","m","/","a","/","w",";","x",".","g","i","t">>,
      <<"h","t","t","p","s",":","/","/","g","i","t","h","u","b",".","c","o","m","/","a","/",".","w",".","g","i","t">> }

Branches == { <<"m","a","i","n">>, <<"-","x">>, << >> }

homeDir == <<"/","h","o","m","e","/","u">>

\* path.join(homeDir, ...) of findOpenCodeConfigs, in probing order
potentialPaths ==
    << homeDir \o <<"/",".","l","o","c","a","l","/","s","h","a","r","e","/","o","p","e","n","c","o","d","e">>,
       homeDir \o <<"/",".","c","o","n","f","i","g","/","o","p","e","n","c","o","d","e">>,
       homeDir \o <<"/",".","s","h","a","r","e","d","/","o","p","e","n","c","o","d","e">>,
       homeDir \o <<"/",".","o","p","e","n","c","o","d","e">>,
       homeDir \o <<"/",".","l","o","c","a","l","/","o","p","e","n","c","o","d","e">>,
       homeDir \o <<"/",".","c","o","n","f","i","g","/","o","p","e","n","c","o","d","e","-","a","i">> >>

sshDir == homeDir \o <<"/",".","s","s","h">>
gitConfig == homeDir \o <<"/",".","g","i","t","c","o","n","f","i","g">>

\* the optional host paths, the ones the config categories depend on first
Probes == << potentialPaths[3], potentialPaths[2], potentialPaths[1], potentialPaths[6],
             sshDir, gitConfig, potentialPaths[4], potentialPaths[5] >>

FsWorlds == SUBSET {Probes[i] : i \in 1..(IF MaxProbe < Len(Probes) THEN MaxProbe ELSE Len(Probes))}

\* ------------------------------------------------------------------ state
VARIABLES
    variant,      \* which of the two launchers of bin/agentbox.js runs (1: lines 1-439, 2: lines 441-677)
    argv,         \* process.argv flags
    sshAuthSock,  \* process.env.SSH_AUTH_SOCK
    pc,           \* position of the orchestrator process
    exitCode,     \* exit code of the orchestrator, -1 while it runs
    abort,        \* why the run called process.exit(1), "none" otherwise
    checks,       \* requirement checks performed, in order, with their outcome
    calls,        \* external commands issued (execSync / spawn), in order
    logs,         \* log lines written, in order
    validated,    \* values returned by a validator in this run
    repoInfo,     \* the object returned by getRepoInfo
    image,        \* whether the engine holds the image opencode-box
    found,        \* optional host paths that exist
    openCodeConfigs, \* result of findOpenCodeConfigs
    dockerArgs,   \* argument list handed to spawn
    timestamp,    \* session identifier
    child,        \* the spawned docker client: none, alive, exited (exit event pending), reaped, failed
    childCode,    \* its exit code
    volumes,      \* ephemeral volumes that exist in the engine
    sigs,         \* signals delivered so far
    session,      \* SessionLifecycleState
    cleaned,      \* number of times the session entered Cleaned
    stamp,        \* session identifier of each of several invocations
    tick,         \* Date.now(), the wall clock in milliseconds
    vInput,       \* the raw string handed to a validator
    vOut          \* which validator was applied to it, and what it gave

vars == << variant, argv, sshAuthSock, pc, exitCode, abort, checks, calls, logs,
           validated, repoInfo, image, found, openCodeConfigs, dockerArgs, timestamp,
           child, childCode, volumes, sigs, session, cleaned, stamp, tick,
           vInput, vOut >>

envVars == << variant, argv, sshAuthSock >>
sessionsVars == << stamp, tick >>
validatorVars == << vInput, vOut >>
launcherVars == << variant, argv, sshAuthSock, pc, exitCode, abort, checks, calls, logs,
                   validated, repoInfo, image, found, openCodeConfigs, dockerArgs,
                   timestamp, child, childCode, volumes, sigs, session, cleaned,
                   stamp, tick >>

NoRepo == [url |-> << >>, name |-> << >>, branch |-> << >>, set |-> FALSE]
NoConfigs == [localShare |-> << >>, config |-> << >>, alternative |-> << >>, all |-> << >>]

Invocations == {1, 2, 3}

\* no validator has been applied to vInput yet
NotRun == [by |-> "none", ok |-> FALSE, value |-> << >>]

\* the launcher before its first statement
ProcessStart ==
    /\ pc = "main"
    /\ exitCode = -1
    /\ abort = "none"
    /\ checks = << >>
    /\ calls = << >>
    /\ logs = << >>
    /\ validated = {}
    /\ repoInfo = NoRepo
    /\ found = {}
    /\ openCodeConfigs = NoConfigs
    /\ dockerArgs = << >>
    /\ timestamp = 0
    /\ child = "none"
    /\ childCode = -1
    /\ volumes = {}
    /\ sigs = 0
    /\ session = "None"
    /\ cleaned = 0
    /\ stamp = [p \in Invocations |-> 0]
    /\ tick = 1

Init ==
    /\ variant \in {1, 2}
    /\ argv \in Argvs
    /\ sshAuthSock \in SockValues
    /\ image \in {"present", "absent"}
    /\ ProcessStart
    /\ vInput = << >>
    /\ vOut = NotRun

\* one external command: execSync(cmd, {timeout}) or spawn; timeout 0 = none
Call(cmd, target, timeout, out) ==
    [cmd |-> cmd, target |-> target, timeout |-> timeout, out |-> out]

NoTarget == [lit |-> "", cs |-> << >>, n |-> 0]

Log(level, key) == <<level, key>>

\* (fault) the process ends without passing its code on
ExitNoCode(code, why) ==
    /\ pc' = "exited"
    /\ exitCode' = 0
    /\ abort' = why

\* process.exit(code)
Exit(code, why) ==
    /\ pc' = "exited"
    /\ exitCode' = code
    /\ abort' = why

\* ------------------------------------------------------------------- main
\* (fault) the image is built before the repository is looked at
MainSequenceBuildFirst ==
    <<"checkRequirements", "buildDockerImage", "getRepoInfo", "runContainer">>

\* the calls main makes after the flag handling, in order
MainSequence == <<"checkRequirements", "getRepoInfo", "buildDockerImage", "runContainer">>

StepAfter(f) ==
    LET i == CHOOSE k \in 1..Len(MainSequence) : MainSequence[k] = f
    IN  IF i = Len(MainSequence) THEN "running" ELSE MainSequence[i + 1]

\* (fault) the short flag is not looked for
wantsHelpLongOnly(args) == "--help" \in args

\* process.argv.includes('--help') || process.argv.includes('-h')
wantsHelp(args) == args \cap {"--help", "-h"} # {}

\* process.argv.includes('--version') || process.argv.includes('-v')
wantsVersion(args) == args \cap {"--version", "-v"} # {}

Main ==
    /\ pc = "main"
    /\ IF wantsHelp(argv)
       THEN /\ logs' = Append(logs, Log("stdout", "usage"))
            /\ Exit(0, "none")
       ELSE IF wantsVersion(argv)
       THEN /\ logs' = Append(logs, Log("stdout", "version"))
            /\ Exit(0, "none")
       ELSE /\ logs' = Append(logs, Log("info", "starting"))
            /\ pc' = MainSequence[1]
            /\ UNCHANGED << exitCode, abort >>
    /\ UNCHANGED << envVars, checks, calls, validated, repoInfo, image, found,
                    openCodeConfigs, dockerArgs, timestamp, child, childCode,
                    volumes, sigs, session, cleaned, sessionsVars, validatorVars >>

\* ------------------------------------------------------ checkRequirements
\* the checks of each launcher: name, command (execSync) or "" (in-process), timeout
requirementChecks(v) ==
    IF v = 1
    THEN << [name |-> "docker --version", exec |-> TRUE, timeout |-> 5000],
            [name |-> "docker info", exec |-> TRUE, timeout |-> 5000],
            [name |-> "git rev-parse --git-dir", exec |-> TRUE, timeout |-> 5000],
            [name |-> "SSH_AUTH_SOCK set", exec |-> FALSE, timeout |-> 0],
            [name |-> "SSH_AUTH_SOCK exists", exec |-> FALSE, timeout |-> 0] >>
    ELSE << [name |-> "docker --version", exec |-> TRUE, timeout |-> 0],
            [name |-> "git rev-parse --git-dir", exec |-> TRUE, timeout |-> 0],
            [name |-> "SSH_AUTH_SOCK set", exec |-> FALSE, timeout |-> 0] >>

\* (fault) a failed check does not end the function
checksPerformedAll(v, outcome) == Len(requirementChecks(v))

\* number of checks performed when outcome[i] tells whether check i passes:
\* every check up to and including the first that fails
checksPerformed(v, outcome) ==
    LET n == Len(requirementChecks(v))
    IN  IF \A i \in 1..n : outcome[i] THEN n
        ELSE CHOOSE i \in 1..n : ~outcome[i] /\ \A j \in 1..(i - 1) : outcome[j]

RECURSIVE ExecCalls(_, _, _)
ExecCalls(cs, outcome, k) ==
    IF k = 0 THEN << >>
    ELSE LET rest == ExecCalls(cs, outcome, k - 1)
         IN  IF cs[k].exec
             THEN Append(rest, Call(cs[k].name, NoTarget, cs[k].timeout,
                                    IF outcome[k] THEN "ok" ELSE "error"))
             ELSE rest

CheckRequirements ==
    /\ pc = "checkRequirements"
    /\ \E dockerOk \in BOOLEAN, infoOk \in BOOLEAN, gitOk \in BOOLEAN, sockExists \in BOOLEAN :
         LET cs == requirementChecks(variant)
             n == Len(cs)
             outcome == IF variant = 1
                        THEN <<dockerOk, infoOk, gitOk, sshAuthSock # Unset, sockExists>>
                        ELSE <<dockerOk, gitOk, sshAuthSock # Unset>>
             k == checksPerformed(variant, outcome)
             allOk == \A i \in 1..n : outcome[i]
         IN  /\ checks' = checks \o [i \in 1..k |-> [name |-> cs[i].name, ok |-> outcome[i]]]
             /\ calls' = calls \o ExecCalls(cs, outcome, k)
             /\ IF allOk
                THEN /\ logs' = Append(logs, Log("success", "requirements"))
                     /\ pc' = StepAfter("checkRequirements")
                     /\ UNCHANGED << exitCode, abort >>
                ELSE /\ logs' = Append(logs, Log("error", cs[k].name))
                     /\ Exit(1, "requirement")
    /\ UNCHANGED << envVars, validated, repoInfo, image, found, openCodeConfigs,
                    dockerArgs, timestamp, child, childCode, volumes, sigs,
                    session, cleaned, sessionsVars, validatorVars >>

\* ------------------------------------------------------------ getRepoInfo
\* variant 1 validates the three values in the order url, branch, name; the
\* first validator that throws ends the function in its catch block
getRepoInfo(v, remoteUrl, currentBranch) ==
    LET repoName == basename(remoteUrl, <<".","g","i","t">>)
        vu == validateRepositoryUrl(remoteUrl)
        vb == validateBranchName(currentBranch)
        vn == validateRepoName(repoName)
    IN  IF v = 1
        THEN [ok |-> vu.ok /\ vb.ok /\ vn.ok,
              info |-> [url |-> vu.value, name |-> vn.value, branch |-> vb.value, set |-> TRUE],
              passed |-> (IF vu.ok THEN {<<"url", vu.value>>} ELSE {})
                         \cup (IF vu.ok /\ vb.ok THEN {<<"branch", vb.value>>} ELSE {})
                         \cup (IF vu.ok /\ vb.ok /\ vn.ok THEN {<<"name", vn.value>>} ELSE {})]
        ELSE [ok |-> TRUE,
              info |-> [url |-> remoteUrl, name |-> repoName, branch |-> currentBranch, set |-> TRUE],
              passed |-> {}]

GetRepoInfo ==
    /\ pc = "getRepoInfo"
    /\ \E gitOk \in BOOLEAN, rawUrl \in RemoteUrls, rawBranch \in Branches :
         LET r == getRepoInfo(variant, Trim(rawUrl), Trim(rawBranch))
         IN  IF ~gitOk
             THEN /\ calls' = Append(calls, Call("git config --get remote.origin.url", NoTarget, 0, "error"))
                  /\ logs' = Append(logs, Log("error", "repository information"))
                  /\ Exit(1, "repo")
                  /\ UNCHANGED << validated, repoInfo >>
             ELSE /\ calls' = calls \o
                        << Call("git config --get remote.origin.url", NoTarget, 0, "ok"),
                           Call("git branch --show-current", NoTarget, 0, "ok") >>
                  /\ validated' = validated \cup r.passed
                  /\ IF r.ok
                     THEN /\ repoInfo' = r.info
                          /\ pc' = StepAfter("getRepoInfo")
                          /\ UNCHANGED << exitCode, abort, logs >>
                     ELSE /\ logs' = Append(logs, Log("error", "repository information"))
                          /\ Exit(1, "validation")
                          /\ UNCHANGED repoInfo
    /\ UNCHANGED << envVars, checks, image, found, openCodeConfigs, dockerArgs,
                    timestamp, child, childCode, volumes, sigs, session, cleaned,
                    sessionsVars, validatorVars >>

\* ------------------------------------------------------- buildDockerImage
imageName == "opencode-box"

\* (fault) the early return is missing
skipsBuildNever(queryOut) == FALSE

\* TRUE when the function returns after the query without building
skipsBuild(queryOut) == queryOut = "listed"

BuildDockerImage ==
    /\ pc = "buildDockerImage"
    /\ \E queryOut \in {"listed", "empty", "error"}, buildOk \in BOOLEAN :
         /\ queryOut = "listed" => image = "present"
         /\ queryOut = "empty" => image = "absent"
         /\ LET q == Call("docker images", [NoTarget EXCEPT !.lit = imageName], 0, queryOut)
                b == Call("docker build", [NoTarget EXCEPT !.lit = imageName], 0,
                          IF buildOk THEN "ok" ELSE "error")
            IN  IF skipsBuild(queryOut)
                THEN /\ calls' = Append(calls, q)
                     /\ logs' = Append(logs, Log("info", "image exists"))
                     /\ pc' = StepAfter("buildDockerImage")
                     /\ UNCHANGED << exitCode, abort, image >>
                ELSE IF buildOk
                THEN /\ calls' = calls \o <<q, b>>
                     /\ logs' = logs \o <<Log("info", "building"), Log("success", "image built")>>
                     /\ image' = "present"
                     /\ pc' = StepAfter("buildDockerImage")
                     /\ UNCHANGED << exitCode, abort >>
                ELSE /\ calls' = calls \o <<q, b>>
                     /\ logs' = logs \o <<Log("info", "building"), Log("error", "image build")>>
                     /\ Exit(1, "build")
                     /\ UNCHANGED image
    /\ UNCHANGED << envVars, checks, validated, repoInfo, found, openCodeConfigs,
                    dockerArgs, timestamp, child, childCode, volumes, sigs,
                    session, cleaned, sessionsVars, validatorVars >>

\* ---------------------------------------------------- findOpenCodeConfigs
\* Array.prototype.find: the first element that satisfies the test, << >> (undefined) when none
FindIncluding(paths, needle) ==
    LET hits == SelectSeq(paths, LAMBDA q : Includes(q, needle))
    IN  IF hits = << >> THEN << >> ELSE hits[1]

findOpenCodeConfigs(exists) ==
    LET foundConfigs == SelectSeq(potentialPaths, LAMBDA q : q \in exists)
    IN  [localShare |-> FindIncluding(foundConfigs,
                          <<".","l","o","c","a","l","/","s","h","a","r","e","/","o","p","e","n","c","o","d","e">>),
         config |-> FindIncluding(foundConfigs,
                          <<".","c","o","n","f","i","g","/","o","p","e","n","c","o","d","e">>),
         alternative |-> FindIncluding(foundConfigs,
                          <<".","s","h","a","r","e","d","/","o","p","e","n","c","o","d","e">>),
         all |-> foundConfigs]

\* ----------------------------------------------------------- runContainer
\* a JavaScript string built as literal text, then a host or repository
\* string, then a number: `${lit}${cs}${n}`
Lit(s) == [lit |-> s, cs |-> << >>, n |-> 0]
Str(cs) == [lit |-> "", cs |-> cs, n |-> 0]
Stamped(prefix, ts) == [lit |-> prefix, cs |-> << >>, n |-> ts]

containerName(ts) == Stamped("opencode-box-container-", ts)
stateVolume(ts) == Stamped("opencode-box-state-", ts)
workspaceVolume(ts) == Stamped("opencode-box-workspace-", ts)

\* one option of the docker command line
Flag(name, value) == [kind |-> "flag", key |-> name, val |-> Lit(value), dst |-> Lit(""), opt |-> ""]
Named(name, value) == [kind |-> "flag", key |-> name, val |-> value, dst |-> Lit(""), opt |-> ""]
Mount(src, dst, opt) == [kind |-> "-v", key |-> "", val |-> src, dst |-> dst, opt |-> opt]
Env(name, value) == [kind |-> "-e", key |-> name, val |-> value, dst |-> Lit(""), opt |-> ""]

\* the config mounts of the first launcher (lines 318-328)
configMounts1(c) ==
    (IF c.localShare # << >>
     THEN << Mount(Str(c.localShare), Lit("/tmp/host-opencode-local-share"), "ro"),
             Env("HOST_OPENCODE_LOCAL_SHARE", Lit("/tmp/host-opencode-local-share")) >>
     ELSE << >>)
    \o
    (IF c.config # << >>
     THEN << Mount(Str(c.config), Lit("/tmp/host-opencode-config"), "ro"),
             Env("HOST_OPENCODE_CONFIG", Lit("/tmp/host-opencode-config")) >>
     ELSE << >>)

\* the config mounts of the second launcher (lines 585-596)
configMounts2(c) ==
    (IF c.localShare # << >>
     THEN << Mount(Str(c.localShare), Lit("/home/developer/.local/share/opencode"), "") >>
     ELSE << >>)
    \o
    (IF c.config # << >>
     THEN << Mount(Str(c.config), Lit("/home/developer/.config/opencode"), "") >>
     ELSE << >>)
    \o
    (IF c.alternative # << >> /\ c.config = << >>
     THEN << Mount(Str(c.alternative), Lit("/home/developer/.config/opencode"), "") >>
     ELSE << >>)

dockerArgs1(ts, sock, repo, exists, c) ==
    << Flag("run", ""), Flag("-it", ""), Flag("--rm", ""),
       Named("--name", containerName(ts)),
       Flag("--security-opt", "no-new-privileges:true"),
       Flag("--cap-drop", "ALL"),
       Flag("--cap-add", "DAC_OVERRIDE"),
       Flag("--cap-add", "SETGID"),
       Flag("--cap-add", "SETUID"),
       Flag("--cap-add", "CHOWN"),
       Flag("--network", "bridge"),
       Mount(Str(sock), Lit("/ssh-agent"), ""),
       Env("SSH_AUTH_SOCK", Lit("/ssh-agent")),
       Env("REPO_URL", Str(repo.url)),
       Env("REPO_NAME", Str(repo.name)),
       Env("REPO_BRANCH", Str(repo.branch)) >>
    \o (IF sshDir \in exists THEN << Mount(Str(sshDir), Lit("/host-ssh"), "ro") >> ELSE << >>)
    \o (IF gitConfig \in exists
        THEN << Mount(Str(gitConfig), Lit("/home/node/.gitconfig"), "ro") >> ELSE << >>)
    \o configMounts1(c)
    \o << Mount(stateVolume(ts), Lit("/home/node/.local/state"), ""),
          Mount(workspaceVolume(ts), Lit("/workspace"), ""),
          Flag("image", "opencode-box"), Flag("command", "/app/entrypoint.sh") >>

dockerArgs2(ts, sock, repo, exists, c) ==
    << Flag("run", ""), Flag("-it", ""), Flag("--rm", ""),
       Named("--name", containerName(ts)),
       Mount(Str(sock), Str(sock), ""),
       Env("SSH_AUTH_SOCK", Str(sock)),
       Mount(Str(gitConfig), Lit("/home/developer/.gitconfig"), "ro"),
       Env("REPO_URL", Str(repo.url)),
       Env("REPO_NAME", Str(repo.name)),
       Env("REPO_BRANCH", Str(repo.branch)) >>
    \o configMounts2(c)
    \o << Mount(stateVolume(ts), Lit("/home/developer/.local/state"), ""),
          Flag("image", "opencode-box"), Flag("command", "/app/wrapper.sh") >>

\* the ephemeral volumes a launcher names, in the order its exit handler removes them
sessionVolumes(v, ts) ==
    IF v = 1 THEN << stateVolume(ts), workspaceVolume(ts) >> ELSE << stateVolume(ts) >>

\* spawn either starts the docker client, throws, or reports the failure with
\* an 'error' event that no listener handles
RunContainer ==
    /\ pc = "runContainer"
    /\ \E exists \in FsWorlds, spawned \in {"ok", "throw", "error"} :
         LET ts == tick
             c == findOpenCodeConfigs(exists)
             args == IF variant = 1 THEN dockerArgs1(ts, sshAuthSock, repoInfo, exists, c)
                     ELSE dockerArgs2(ts, sshAuthSock, repoInfo, exists, c)
         IN  /\ found' = exists
             /\ openCodeConfigs' = c
             /\ timestamp' = ts
             /\ dockerArgs' = args
             /\ calls' = Append(calls, Call("docker run", containerName(ts), 0, spawned))
             /\ IF spawned = "throw"
                THEN /\ logs' = logs \o << Log("info", "starting container"),
                                           Log("error", "run container") >>
                     /\ Exit(1, "launch")
                     /\ session' = "Starting"
                     /\ UNCHANGED << child, volumes >>
                ELSE /\ logs' = Append(logs, Log("info", "starting container"))
                     /\ pc' = StepAfter("runContainer")
                     /\ child' = IF spawned = "ok" THEN "alive" ELSE "failed"
                     /\ session' = IF spawned = "ok" THEN "Running" ELSE "Starting"
                     /\ volumes' = IF spawned = "ok"
                                   THEN {sessionVolumes(variant, ts)[i] :
                                            i \in 1..Len(sessionVolumes(variant, ts))}
                                   ELSE {}
                     /\ UNCHANGED << exitCode, abort >>
    /\ UNCHANGED << envVars, checks, validated, repoInfo, image, childCode, sigs,
                    cleaned, sessionsVars, validatorVars >>

\* the unhandled 'error' event of a failed spawn ends the process
SpawnError ==
    /\ pc = "running"
    /\ child = "failed"
    /\ Exit(1, "launch")
    /\ UNCHANGED << envVars, checks, calls, logs, validated, repoInfo, image, found,
                    openCodeConfigs, dockerArgs, timestamp, child, childCode,
                    volumes, sigs, session, cleaned, sessionsVars, validatorVars >>

\* ---------------------------------------------------------------- lifecycle
\* the container ends by itself and the docker client exits with some code
ChildExit ==
    /\ pc = "running"
    /\ child = "alive"
    /\ \E code \in ExitCodes : childCode' = code
    /\ child' = "exited"
    /\ UNCHANGED << envVars, pc, exitCode, abort, checks, calls, logs, validated,
                    repoInfo, image, found, openCodeConfigs, dockerArgs, timestamp,
                    volumes, sigs, session, cleaned, sessionsVars, validatorVars >>

\* what the exit handler does about one volume when its removal gives out
removeVolume(v, volume, out) ==
    [call |-> Call("docker volume rm", volume, IF v = 1 THEN 10000 ELSE 0, out),
     log |-> IF v = 2 THEN << >>
             ELSE IF out = "ok" THEN << Log("info", "cleaned up volume") >>
             ELSE << Log("warning", "failed to clean up volume") >>]

\* (fault) the try/catch is around the loop: the first failure ends it
removeAllUntilError(v, vols, outs, k) ==
    LET one == removeVolume(v, vols[1], outs[1])
        two == removeVolume(v, vols[IF k > 1 THEN 2 ELSE 1], outs[IF k > 1 THEN 2 ELSE 1])
    IN  IF k = 0 THEN [calls |-> << >>, logs |-> << >>]
        ELSE IF k = 1 \/ outs[1] # "ok" THEN [calls |-> <<one.call>>, logs |-> one.log]
        ELSE [calls |-> <<one.call, two.call>>, logs |-> one.log \o two.log]

\* volumes.forEach of the exit handler: outs[i] is the outcome for volume i
RECURSIVE removeAll(_, _, _, _)
removeAll(v, vols, outs, k) ==
    IF k = 0 THEN [calls |-> << >>, logs |-> << >>]
    ELSE LET rest == removeAll(v, vols, outs, k - 1)
             one == removeVolume(v, vols[k], outs[k])
         IN  [calls |-> Append(rest.calls, one.call), logs |-> rest.logs \o one.log]

\* (fault) the session is reported as completed whatever the child's code
sessionReportCompleted(code) == Log("success", "session completed")

\* the line the exit listener logs for the child's exit code
sessionReport(code) ==
    IF code = 0 THEN Log("success", "session completed")
    ELSE <<"error", "session ended with exit code", code>>

\* child.on('exit')
ExitHandler ==
    /\ pc = "running"
    /\ child = "exited"
    /\ \E out1 \in {"ok", "error"}, out2 \in {"ok", "error"} :
         LET vols == sessionVolumes(variant, timestamp)
             outs == <<out1, out2>>
             r == removeAll(variant, vols, outs, Len(vols))
         IN  /\ Len(vols) = 1 => out2 = "ok"
             /\ calls' = calls \o r.calls
             /\ logs' = Append(logs, sessionReport(childCode)) \o r.logs
             /\ volumes' = volumes \ {vols[i] : i \in {j \in 1..Len(vols) : outs[j] = "ok"}}
    /\ child' = "reaped"
    /\ session' = "Cleaned"
    /\ cleaned' = cleaned + 1
    /\ UNCHANGED << envVars, pc, exitCode, abort, checks, validated, repoInfo, image,
                    found, openCodeConfigs, dockerArgs, timestamp, childCode, sigs,
                    sessionsVars, validatorVars >>

\* (fault) no listener is registered
registersNoSignalHandlers(v) == FALSE

\* the launchers that register SIGINT / SIGTERM listeners after the spawn
registersSignalHandlers(v) == v = 1

\* (fault) the listeners are added with process.once: gone after one signal
listenerStaysOnce(handled) == handled = 0

\* process.on: a listener is still registered after it has handled signals
listenerStays(handled) == TRUE

\* (fault) the stop names the image instead of the container
stopTargetImage(ts) == Lit(imageName)

\* the container the signal handlers stop
stopTarget(ts) == containerName(ts)

\* (fault) the listener ends the process after its stop request
SignalHandlerThenExit ==
    /\ pc = "running"
    /\ child \in {"alive", "exited", "reaped"}
    /\ registersSignalHandlers(variant)
    /\ listenerStays(sigs)
    /\ sigs < MaxSignals
    /\ sigs' = sigs + 1
    /\ \E sig \in {"SIGINT", "SIGTERM"}, out \in {"ok", "error"}, code \in ExitCodes :
         /\ out = "ok" => child = "alive"
         /\ (out = "error" \/ child # "alive") => code = 0
         /\ calls' = Append(calls, Call("docker stop", stopTarget(timestamp), 10000, out))
         /\ logs' = logs \o << Log("info", sig) >>
                         \o (IF out = "ok" THEN << >> ELSE << Log("warning", "failed to stop") >>)
         /\ IF out = "ok"
            THEN child' = "exited" /\ childCode' = code
            ELSE UNCHANGED << child, childCode >>
    /\ Exit(0, "none")
    /\ UNCHANGED << envVars, checks, validated, repoInfo, image,
                    found, openCodeConfigs, dockerArgs, timestamp, volumes, session,
                    cleaned, sessionsVars, validatorVars >>

\* process.on('SIGINT') and process.on('SIGTERM'): the same body.  The stop
\* can only succeed while the container runs, and then the docker client exits.
SignalHandler ==
    /\ pc = "running"
    /\ child \in {"alive", "exited", "reaped"}
    /\ registersSignalHandlers(variant)
    /\ listenerStays(sigs)
    /\ sigs < MaxSignals
    /\ sigs' = sigs + 1
    /\ \E sig \in {"SIGINT", "SIGTERM"}, out \in {"ok", "error"}, code \in ExitCodes :
         /\ out = "ok" => child = "alive"
         /\ (out = "error" \/ child # "alive") => code = 0
         /\ calls' = Append(calls, Call("docker stop", stopTarget(timestamp), 10000, out))
         /\ logs' = logs \o << Log("info", sig) >>
                         \o (IF out = "ok" THEN << >> ELSE << Log("warning", "failed to stop") >>)
         /\ IF out = "ok"
            THEN child' = "exited" /\ childCode' = code
            ELSE UNCHANGED << child, childCode >>
    /\ UNCHANGED << envVars, pc, exitCode, abort, checks, validated, repoInfo, image,
                    found, openCodeConfigs, dockerArgs, timestamp, volumes, session,
                    cleaned, sessionsVars, validatorVars >>

\* SIGINT / SIGTERM with no listener registered: the default action ends the
\* process (exit status 128 + signal number, here 130 for both)
DefaultSignal ==
    /\ pc \notin {"exited"}
    /\ ~(pc = "running" /\ registersSignalHandlers(variant) /\ listenerStays(sigs))
    /\ sigs < MaxSignals
    /\ sigs' = sigs + 1
    /\ Exit(130, "signal")
    /\ UNCHANGED << envVars, checks, calls, logs, validated, repoInfo, image, found,
                    openCodeConfigs, dockerArgs, timestamp, child, childCode,
                    volumes, session, cleaned, sessionsVars, validatorVars >>

\* nothing keeps the event loop alive once the child has been reaped
ProcessEnd ==
    /\ pc = "running"
    /\ child = "reaped"
    /\ Exit(0, "none")
    /\ UNCHANGED << envVars, checks, calls, logs, validated, repoInfo, image, found,
                    openCodeConfigs, dockerArgs, timestamp, child, childCode,
                    volumes, sigs, session, cleaned, sessionsVars, validatorVars >>

Next ==
    \/ Main
    \/ CheckRequirements
    \/ GetRepoInfo
    \/ BuildDockerImage
    \/ RunContainer
    \/ SpawnError
    \/ ChildExit
    \/ ExitHandler
    \/ SignalHandler
    \/ DefaultSignal
    \/ ProcessEnd

Spec == Init /\ [][Next]_vars

\* the event loop runs a pending exit handler and ends the process when idle
LiveSpec == Spec /\ WF_vars(ExitHandler) /\ WF_vars(ProcessEnd)

\* ------------------------------------------------ concurrent invocations
\* several invocations of the launcher on one host: each reads Date.now()
\* once, in runContainer, and names its container and volumes after it
Tick ==
    /\ tick < MaxTick
    /\ tick' = tick + 1
    /\ UNCHANGED << envVars, pc, exitCode, abort, checks, calls, logs, validated,
                    repoInfo, image, found, openCodeConfigs, dockerArgs, timestamp,
                    child, childCode, volumes, sigs, session, cleaned, stamp, validatorVars >>

Invoke(p) ==
    /\ stamp[p] = 0
    /\ stamp' = [stamp EXCEPT ![p] = tick]
    /\ UNCHANGED << envVars, pc, exitCode, abort, checks, calls, logs, validated,
                    repoInfo, image, found, openCodeConfigs, dockerArgs, timestamp,
                    child, childCode, volumes, sigs, session, cleaned, tick, validatorVars >>

SessionsNext ==
    \/ Tick
    \/ \E p \in Invocations : Invoke(p)

SessionsSpec == Init /\ [][SessionsNext]_vars

\* ------------------------------------------------- validators on their own
\* The three validators are pure functions of one string.  ValidatorSpec
\* starts with any one string of ValidatorInputs and applies one validator
\* to it.
MaxInputLen == 3

\* parts a URL-shaped input is put together from
UrlSchemes ==
    { <<"h","t","t","p","s">>,
      <<"h","t","t","p">>,
      <<"s","s","h">>,
      <<"g","i","t">>,
      <<"f","t","p">>,
      <<"H","T","T","P","S">> }

UrlSeparators ==
    { <<":","/","/">>,
      <<":">> }

UrlUsers ==
    { << >>,
      <<"g","i","t","@">>,
      <<"g","i","t","h","u","b",".","c","o","m","@">> }

UrlHosts ==
    { <<"g","i","t","h","u","b",".","c","o","m">>,
      <<"g","i","t","l","a","b",".","c","o","m">>,
      <<"b","i","t","b","u","c","k","e","t",".","o","r","g">>,
      <<"d","e","v",".","a","z","u","r","e",".","c","o","m">>,
      <<"s","s","h",".","d","e","v",".","a","z","u","r","e",".","c","o","m">>,
      <<"e","v","i","l",".","c","o","m">>,
      <<"G","i","t","H","u","b",".","c","o","m">>,
      <<"g","i","t","h","u","b",".","c","o","m",".","e","v","i","l",".","c","o","m">> }

UrlPorts ==
    { << >>,
      <<":","2","2">> }

UrlTails ==
    { <<"/","a","/","w",".","g","i","t">>,
      << >>,
      <<"/","g","i","t","@","g","i","t","h","u","b",".","c","o","m",":","a","/","w",".","g","i","t">> }

UrlInputs ==
    { sc \o sep \o u \o h \o p \o t :
        sc \in UrlSchemes, sep \in UrlSeparators, u \in UrlUsers,
        h \in UrlHosts, p \in UrlPorts, t \in UrlTails }

\* parts an SCP-style input user@host:path.git is put together from
ScpUsers ==
    { <<"g","i","t">>,
      <<"m","e">> }

ScpPaths ==
    { <<"a","/","w">>,
      <<"v","3","/","o","/","p","/","r">>,
      <<"a"," ","w">>,
      << >> }

ScpEndings ==
    { <<".","g","i","t">>,
      << >> }

ScpInputs ==
    { u \o <<"@">> \o h \o <<":">> \o p \o e :
        u \in ScpUsers, h \in UrlHosts \cup {<< >>}, p \in ScpPaths, e \in ScpEndings }

\* every string of at most n characters of cs
RECURSIVE Strings(_, _)
Strings(cs, n) ==
    IF n = 0 THEN {<< >>}
    ELSE LET shorter == Strings(cs, n - 1)
         IN  shorter \cup {Append(s, c) : s \in shorter, c \in cs}

ShortAlphabet == {"a", "1", ".", "-", "_", "/", " ", ";", "~"}

ShortInputs == Strings(ShortAlphabet, MaxInputLen)

Repeat(c, n) == [i \in 1..n |-> c]

\* strings around the two length limits, with and without a bad first or last character
LongInputs ==
    { pre \o Repeat("a", n) \o post :
        pre \in {<< >>, <<"-">>, <<".">>, <<" ">>}, post \in {<< >>, <<".">>, <<" ">>},
        n \in {MaxNameLen - 1, MaxNameLen, MaxNameLen + 1,
                MaxBranchLen - 1, MaxBranchLen, MaxBranchLen + 1} }

\* one well-formed value of each kind
WellFormed ==
    { <<"h","t","t","p","s",":","/","/","g","i","t","h","u","b",".","c","o","m","/","a","/","w",".","g","i","t">>,
      <<"g","i","t","@","g","i","t","h","u","b",".","c","o","m",":","a","/","w",".","g","i","t">>,
      <<"m","a","i","n">>,
      <<"m","y",".","r","e","p","o","-","1","_","2">>,
      <<"f","e","a","t","u","r","e","/","x">> }

Insert(s, c, k) == SubSeq(s, 1, k) \o <<c>> \o SubSeq(s, k + 1, Len(s))

\* a shell metacharacter at every position of a well-formed value
DangerousInputs ==
    UNION { { Insert(s, c, k) : c \in DangerousChars, k \in 0..Len(s) } : s \in WellFormed }

\* whitespace before and after a value
PaddedInputs ==
    { pre \o s \o post :
        pre \in {<< >>, <<" ">>, <<"\t">>}, post \in {<< >>, <<" ">>, <<"\n">>},
        s \in WellFormed \cup {<<"a"," ","b">>, <<"a","\t","b">>} }

ValidatorInputs ==
    UrlInputs \cup ScpInputs \cup ShortInputs \cup LongInputs \cup DangerousInputs
    \cup PaddedInputs

\* the outcome of a validator, as the caller sees it
Applied(by, r) == [by |-> by, ok |-> r.ok, value |-> r.value]

ValidatorInit ==
    /\ variant = 1
    /\ argv = {}
    /\ sshAuthSock = Unset
    /\ image = "absent"
    /\ ProcessStart
    /\ vInput \in ValidatorInputs
    /\ vOut = NotRun

ValidateUrl ==
    /\ vOut = NotRun
    /\ vOut' = Applied("url", validateRepositoryUrl(vInput))
    /\ UNCHANGED << launcherVars, vInput >>

ValidateBranch ==
    /\ vOut = NotRun
    /\ vOut' = Applied("branch", validateBranchName(vInput))
    /\ UNCHANGED << launcherVars, vInput >>

ValidateName ==
    /\ vOut = NotRun
    /\ vOut' = Applied("name", validateRepoName(vInput))
    /\ UNCHANGED << launcherVars, vInput >>

ValidatorNext ==
    \/ ValidateUrl
    \/ ValidateBranch
    \/ ValidateName

ValidatorSpec == ValidatorInit /\ [][ValidatorNext]_vars

\* ------------------------------------------------------------ observations
CallIdx(cmd) == {i \in 1..Len(calls) : calls[i].cmd = cmd}

CallsTo(cmd, target) == {i \in CallIdx(cmd) : calls[i].target = target}

LogCount(line) == Cardinality({i \in 1..Len(logs) : logs[i] = line})

Spawned == child \in {"alive", "exited", "reaped"}

\* number of volume removals in a call log
RmCount(cs) == Cardinality({i \in 1..Len(cs) : cs[i].cmd = "docker volume rm"})

\* ------------------------------------------------------------------ claims

C2_BothVolumesRemovedOnce ==
    (variant = 1 /\ child = "reaped") =>
        /\ Cardinality(CallsTo("docker volume rm", stateVolume(timestamp))) = 1
        /\ Cardinality(CallsTo("docker volume rm", workspaceVolume(timestamp))) = 1
        /\ Cardinality(CallIdx("docker volume rm")) = 2
        /\ LogCount(Log("warning", "failed to clean up volume"))
             = Cardinality({i \in CallIdx("docker volume rm") : calls[i].out = "error"})
        /\ LogCount(Log("info", "cleaned up volume"))
             = Cardinality({i \in CallIdx("docker volume rm") : calls[i].out = "ok"})
        /\ abort = "none"
        /\ exitCode \in {-1, 0}
        /\ session = "Cleaned"

C2_Witness ==
    /\ variant = 1
    /\ child = "reaped"
    /\ childCode = 1
    /\ \E i \in CallsTo("docker volume rm", stateVolume(timestamp)) : calls[i].out = "error"
    /\ \E i \in CallsTo("docker volume rm", workspaceVolume(timestamp)) : calls[i].out = "ok"

\* C3: a signal handled while the session is Running issues exactly one
\* command, a stop of this session's container with a timeout, at a moment
\* when no volume removal has been requested, and removes nothing itself;
\* after a stop that succeeded the exit handler runs and requests the removal
\* of both volumes.
C3_StopBeforeCleanup ==
    /\ [][ (variant = 1 /\ session = "Running" /\ sigs' = sigs + 1) =>
              /\ Len(calls') = Len(calls) + 1
              /\ calls'[Len(calls')].cmd = "docker stop"
              /\ calls'[Len(calls')].target = containerName(timestamp)
              /\ calls'[Len(calls')].timeout > 0
              /\ CallIdx("docker volume rm") = {}
              /\ volumes' = volumes
              /\ session' = "Running" ]_vars
    /\ ( ( /\ variant = 1
           /\ session = "Running"
           /\ calls # << >>
           /\ calls[Len(calls)].cmd = "docker stop"
           /\ calls[Len(calls)].out = "ok" )
         ~> ( /\ cleaned = 1
              /\ CallsTo("docker volume rm", stateVolume(timestamp)) # {}
              /\ CallsTo("docker volume rm", workspaceVolume(timestamp)) # {}
              /\ \A i \in CallIdx("docker volume rm") :
                    \E j \in CallIdx("docker stop") : j < i ) )

C3_Witness ==
    /\ variant = 1
    /\ cleaned = 1
    /\ \E j \in CallIdx("docker stop") :
          /\ calls[j].out = "ok"
          /\ \A i \in CallIdx("docker volume rm") : j < i
    /\ Cardinality(CallIdx("docker volume rm")) = 2

\* C4: a run that ended on a failed requirement check or on a rejected URL,
\* branch or name has invoked no image build, spawned nothing and created no
\* volume.
C4_AbortBeforeSideEffects ==
    abort \in {"requirement", "validation"} =>
        /\ CallIdx("docker build") = {}
        /\ CallIdx("docker run") = {}
        /\ dockerArgs = << >>
        /\ child = "none"
        /\ volumes = {}
        /\ session = "None"

C4_Witness ==
    /\ abort = "validation"
    /\ image = "absent"
    /\ pc = "exited"
    /\ exitCode = 1

\* C5: whenever getRepoInfo has returned an object, each of its three fields
\* is a value that its validator returned in this run.
C5_RepoInfoValidated ==
    repoInfo.set =>
        /\ <<"url", repoInfo.url>> \in validated
        /\ <<"branch", repoInfo.branch>> \in validated
        /\ <<"name", repoInfo.name>> \in validated

\* a host or repository string may be in the argument list only if a
\* validator returned it
Trusted(v) == v.cs = << >> \/ v.cs \in {x[2] : x \in validated}

\* C6: in the argument list of the first launcher every mount source and
\* every environment value is built from literals and the timestamp only or
\* is a value returned by a validator, and REPO_URL, REPO_NAME, REPO_BRANCH
\* are the validated fields.
C6_ArgsValidatedOrConstant ==
    variant = 1 =>
        \A i \in 1..Len(dockerArgs) :
           LET a == dockerArgs[i]
           IN  /\ a.kind \in {"-v", "-e"} => Trusted(a.val)
               /\ (a.kind = "-e" /\ a.key = "REPO_URL") => <<"url", a.val.cs>> \in validated
               /\ (a.kind = "-e" /\ a.key = "REPO_NAME") => <<"name", a.val.cs>> \in validated
               /\ (a.kind = "-e" /\ a.key = "REPO_BRANCH") => <<"branch", a.val.cs>> \in validated

\* C7: any two invocations that have named their session have different
\* container names, state volume names and workspace volume names.
C7_SessionNamesDiffer ==
    \A p \in Invocations, q \in Invocations :
       (p # q /\ stamp[p] # 0 /\ stamp[q] # 0) =>
           /\ containerName(stamp[p]) # containerName(stamp[q])
           /\ stateVolume(stamp[p]) # stateVolume(stamp[q])
           /\ workspaceVolume(stamp[p]) # workspaceVolume(stamp[q])

\* the order of the requirement checks the specification gives
ExpectedCheckOrder ==
    << "docker --version", "docker info", "git rev-parse --git-dir",
       "SSH_AUTH_SOCK set", "SSH_AUTH_SOCK exists" >>

\* C8: the checks performed are an initial part of the fixed order, each one
\* performed once; only the last one performed can have failed, and then the
\* process has ended with a non-zero exit code without going further.
C8_ChecksInOrderFailFast ==
    variant = 1 =>
        /\ Len(checks) <= Len(ExpectedCheckOrder)
        /\ \A i \in 1..Len(checks) : checks[i].name = ExpectedCheckOrder[i]
        /\ \A i \in 1..(Len(checks) - 1) : checks[i].ok
        /\ \A c \in {"docker --version", "docker info", "git rev-parse --git-dir"} :
              Cardinality(CallIdx(c)) =
                 Cardinality({i \in 1..Len(checks) : checks[i].name = c})
        /\ (checks # << >> /\ ~checks[Len(checks)].ok) =>
              /\ pc = "exited"
              /\ exitCode > 0
              /\ abort = "requirement"
              /\ repoInfo = NoRepo
              /\ Len(calls) = Cardinality({i \in 1..Len(checks) :
                                  checks[i].name \in {"docker --version", "docker info",
                                                      "git rev-parse --git-dir"}})
        /\ (pc \notin {"main", "checkRequirements"} /\ abort \notin {"requirement", "signal"}
            /\ argv = {}) =>
              (Len(checks) = Len(ExpectedCheckOrder) /\ checks[Len(checks)].ok)

C8_Witness ==
    /\ variant = 1
    /\ abort = "requirement"
    /\ Len(checks) = 2
    /\ ~checks[2].ok

\* C9: a build is only ever invoked after the one query for the image, never
\* when the query listed the image, once when the query came back empty, and
\* never twice.
C9_BuildOnlyWhenAbsent ==
    /\ Cardinality(CallIdx("docker images")) <= 1
    /\ Cardinality(CallIdx("docker build")) <= 1
    /\ \A i \in CallIdx("docker images") : calls[i].target = Lit("opencode-box")
    /\ \A j \in CallIdx("docker build") : \E i \in CallIdx("docker images") : i < j
    /\ \A i \in CallIdx("docker images") :
          /\ calls[i].out = "listed" => CallIdx("docker build") = {}
          /\ calls[i].out = "empty" => Cardinality(CallIdx("docker build")) = 1
    /\ pc \in {"runContainer", "running"} => Cardinality(CallIdx("docker images")) = 1

C9_Witness ==
    /\ pc = "running"
    /\ \E i \in CallIdx("docker images") : calls[i].out = "empty"
    /\ Cardinality(CallIdx("docker build")) = 1

\* C10: in a launch on a host where the alternative directory exists and the
\* primary config directory does not, the alternative directory is mounted
\* at the place of the primary config.
C10_AlternativePromoted ==
    (dockerArgs # << >> /\ potentialPaths[3] \in found /\ potentialPaths[2] \notin found) =>
        \E i \in 1..Len(dockerArgs) :
           /\ dockerArgs[i].kind = "-v"
           /\ dockerArgs[i].val = Str(potentialPaths[3])
           /\ dockerArgs[i].dst \in { Lit("/tmp/host-opencode-config"),
                                      Lit("/home/developer/.config/opencode") }

\* C11: once the process has ended, its exit code is non-zero if a requirement
\* check failed, the repository information was rejected, the image build
\* failed or the container could not be spawned; and it is 0 when the launcher
\* with the termination handlers saw its child end with code 0.
C11_ExitCodeReflectsOutcome ==
    pc = "exited" =>
        /\ (\E i \in 1..Len(checks) : ~checks[i].ok) => exitCode > 0
        /\ LogCount(Log("error", "repository information")) > 0 => exitCode > 0
        /\ abort \in {"requirement", "repo", "validation", "build", "launch"} => exitCode > 0
        /\ (\E i \in CallIdx("docker build") : calls[i].out = "error") => exitCode > 0
        /\ (\E i \in CallIdx("docker run") : calls[i].out \in {"throw", "error"}) => exitCode > 0
        /\ (variant = 1 /\ child = "reaped" /\ childCode = 0) => exitCode = 0

C11_Witness ==
    /\ pc = "exited"
    /\ exitCode = 1
    /\ \E i \in CallIdx("docker run") : calls[i].out = "error"

\* the positions of the log at which the end of the session is reported
SessionReports ==
    {i \in 1..Len(logs) :
        logs[i][2] \in {"session completed", "session ended with exit code"}}

\* C12: once the exit listener has run, the log holds exactly one report of
\* the end of the session, and it is the one for the child's own exit code
\* (completed for 0, otherwise an error carrying that code), whether or not a
\* volume removal or a stop request failed; before that there is no report.
\* The report is a log line: the launcher's own exit status stays 0.
C12_ChildCodeReported ==
    /\ child \in {"none", "alive", "exited", "failed"} => SessionReports = {}
    /\ child = "reaped" =>
          /\ Cardinality(SessionReports) = 1
          /\ \A i \in SessionReports :
                IF childCode = 0
                THEN logs[i] = Log("success", "session completed")
                ELSE /\ Len(logs[i]) = 3
                     /\ logs[i][1] = "error"
                     /\ logs[i][3] = childCode
          /\ \A i \in SessionReports : \A j \in 1..Len(logs) :
                logs[j][2] \in {"cleaned up volume", "failed to clean up volume"} => i < j
          /\ exitCode \in {-1, 0} \/ abort = "signal"

C12_Witness ==
    /\ child = "reaped"
    /\ childCode = 1
    /\ \E i \in CallIdx("docker volume rm") : calls[i].out = "error"
    /\ \E i \in CallIdx("docker stop") : calls[i].out = "error"

\* C13: (the claim as stated) every blocking external call of the launcher
\* with the validators is made with a timeout, and no query or build is
\* issued twice.
C13_EveryCallBounded ==
    variant = 1 =>
        /\ \A i \in 1..Len(calls) : calls[i].cmd # "docker run" => calls[i].timeout > 0
        /\ \A c \in {"docker --version", "docker info", "git rev-parse --git-dir",
                      "git config --get remote.origin.url", "git branch --show-current",
                      "docker images", "docker build"} : Cardinality(CallIdx(c)) <= 1

\* C14: whichever validator is applied to a string that holds one of the
\* characters ; & | ` $ ( ) { } [ ] < > , it rejects and returns no value.
C14_MetacharactersRejected ==
    (/\ vOut.by \in {"url", "branch", "name"}
     /\ HasChar(vInput, {";", "&", "|", "BACKTICK", "$", "(", ")", "{", "}", "[", "]", "<", ">"}))
    => (~vOut.ok /\ vOut.value = << >>)

C14_Witness ==
    /\ vOut.by = "url"
    /\ HasChar(vInput, {";"})
    /\ ParseUrl(vInput).ok
    /\ ParseUrl(vInput).protocol = <<"h","t","t","p","s",":">>
    /\ ParseUrl(vInput).hostname = <<"g","i","t","h","u","b",".","c","o","m">>
    /\ ~vOut.ok

\* C15: the URL validator rejects every input that parses as a URL with a
\* hostname outside the allow-list, whatever the scheme and whatever the rest
\* of the string looks like to the SCP-style pattern.
C15_UntrustedHostRejected ==
    vOut.by = "url" =>
        LET u == ParseUrl(Trim(vInput))
        IN  (u.ok /\ u.hostname \notin trustedHosts) => ~vOut.ok

C15_Witness ==
    /\ vOut.by = "url"
    /\ ParseUrl(vInput).ok
    /\ ParseUrl(vInput).protocol = <<"h","t","t","p","s",":">>
    /\ ParseUrl(vInput).hostname = <<"e","v","i","l",".","c","o","m">>
    /\ Includes(vInput, <<"g","i","t","@","g","i","t","h","u","b",".","c","o","m",":","a","/","w",".","g","i","t">>)
    /\ ~vOut.ok

\* C16: (the claim as stated) a string git@host:path.git with a well-formed
\* path that does not parse as a URL is accepted by the URL validator exactly
\* when host is in the allow-list that is applied to parsed URLs.
C16_ScpSameAllowList ==
    vOut.by = "url" =>
        LET s == Trim(vInput)
            m == sshMatch(s)
        IN  (m.ok /\ ~ParseUrl(s).ok) => (vOut.ok <=> m.host \in trustedHosts)

\* C17: when the input parses as a URL, the URL validator accepts it only
\* with one of the schemes https, ssh, git; with any other scheme it rejects.
C17_OnlyAllowedSchemes ==
    vOut.by = "url" =>
        LET u == ParseUrl(Trim(vInput))
            allowed == { <<"h","t","t","p","s",":">>, <<"s","s","h",":">>, <<"g","i","t",":">> }
        IN  u.ok => /\ vOut.ok => u.protocol \in allowed
                    /\ u.protocol \notin allowed => ~vOut.ok

C17_Witness ==
    /\ vOut.by = "url"
    /\ ParseUrl(vInput).ok
    /\ ParseUrl(vInput).protocol = <<"h","t","t","p",":">>
    /\ ParseUrl(vInput).hostname = <<"g","i","t","h","u","b",".","c","o","m">>
    /\ ~vOut.ok

\* C18: the branch validator rejects every string that starts with "-", ends
\* with "." or contains ".."; a string of letters, digits, ".", "-", "_" and
\* "/" without those shapes is rejected at length 251 and accepted at length 250.
C18_BranchShapeAndLength ==
    vOut.by = "branch" =>
        LET shaped == \/ StartsWith(vInput, <<"-">>)
                      \/ EndsWith(vInput, <<".">>)
                      \/ Includes(vInput, <<".", ".">>)
            plain == CharsOf(vInput) \subseteq (Lower \cup Upper \cup Digit \cup {".", "-", "_", "/"})
        IN  /\ shaped => ~vOut.ok
            /\ (plain /\ ~shaped /\ Len(vInput) = 251) => ~vOut.ok
            /\ (plain /\ ~shaped /\ Len(vInput) = 250) => vOut.ok

C18_Witness ==
    /\ vOut.by = "branch"
    /\ Len(vInput) = 250
    /\ CharsOf(vInput) = {"a"}
    /\ vOut.ok

\* C19: (the claim as stated) the branch validator rejects every input that
\* holds a whitespace character at any position, and what it returns is the
\* trimmed input.
C19_AnyWhitespaceRejected ==
    vOut.by = "branch" =>
        /\ HasChar(vInput, Space) => ~vOut.ok
        /\ vOut.ok => vOut.value = Trim(vInput)

\* C20: (the claim as stated) the name validator accepts a string exactly
\* when the string is non-empty, made of [A-Za-z0-9._-] only, does not start
\* with ".", holds no ".." and has at most 100 characters.
C20_NameAcceptedExactly ==
    vOut.by = "name" =>
        (vOut.ok <=> /\ vInput # << >>
                     /\ CharsOf(vInput) \subseteq (Lower \cup Upper \cup Digit \cup {".", "_", "-"})
                     /\ ~StartsWith(vInput, <<".">>)
                     /\ ~Includes(vInput, <<".", ".">>)
                     /\ Len(vInput) <= 100)

\* C20 (amended): the name validator accepts a string exactly when the
\* string with the whitespace before and after it removed is non-empty, made
\* of [A-Za-z0-9._-] only, does not start with ".", holds no ".." and has at
\* most 100 characters; my.repo-1_2 is accepted.
C20_TrimmedNameAcceptedExactly ==
    vOut.by = "name" =>
        LET t == Trim(vInput)
        IN  /\ vOut.ok <=> /\ t # << >>
                            /\ CharsOf(t) \subseteq (Lower \cup Upper \cup Digit \cup {".", "_", "-"})
                            /\ ~StartsWith(t, <<".">>)
                            /\ ~Includes(t, <<".", ".">>)
                            /\ Len(t) <= 100
            /\ vInput = <<"m","y",".","r","e","p","o","-","1","_","2">> => vOut.ok

C20_Witness ==
    /\ vOut.by = "name"
    /\ vInput # Trim(vInput)
    /\ Trim(vInput) = <<"m","y",".","r","e","p","o","-","1","_","2">>
    /\ vOut.ok

\* C21: (the claim as stated) a run whose arguments include --help or -h
\* prints usage, a run whose arguments include --version or -v prints the
\* version string, and both end with exit code 0 without any requirement
\* check, repository query, image build or container spawn.
C21_HelpAndVersionPrinted ==
    /\ (argv \cap {"--help", "-h", "--version", "-v"} # {}) =>
          (checks = << >> /\ calls = << >> /\ repoInfo = NoRepo /\ child = "none"
           /\ dockerArgs = << >>)
    /\ (pc = "exited" /\ abort # "signal" /\ argv \cap {"--help", "-h"} # {}) =>
          (LogCount(Log("stdout", "usage")) = 1 /\ exitCode = 0)
    /\ (pc = "exited" /\ abort # "signal" /\ argv \cap {"--version", "-v"} # {}) =>
          (LogCount(Log("stdout", "version")) = 1 /\ exitCode = 0)

\* C21 (amended): a run whose arguments include --help or -h prints usage and
\* nothing else; a run whose arguments include --version or -v and neither
\* --help nor -h prints the version string; both end with exit code 0 without
\* any requirement check, repository query, image build or container spawn.
C21_HelpBeforeVersion ==
    /\ (argv \cap {"--help", "-h", "--version", "-v"} # {}) =>
          (checks = << >> /\ calls = << >> /\ repoInfo = NoRepo /\ child = "none"
           /\ dockerArgs = << >>)
    /\ (pc = "exited" /\ abort # "signal" /\ argv \cap {"--help", "-h"} # {}) =>
          (logs = << Log("stdout", "usage") >> /\ exitCode = 0)
    /\ (pc = "exited" /\ abort # "signal" /\ argv \cap {"--version", "-v"} # {}
         /\ argv \cap {"--help", "-h"} = {}) =>
          (logs = << Log("stdout", "version") >> /\ exitCode = 0)

C21_Witness ==
    /\ pc = "exited"
    /\ argv = {"-h", "-v"}
    /\ exitCode = 0
    /\ logs = << Log("stdout", "usage") >>

\* C22: (the claim as stated) the argument list of every launch holds
\* --security-opt no-new-privileges:true and --cap-drop ALL, and adds back
\* no capability other than CHOWN, SETUID, SETGID and DAC_OVERRIDE.
C22_LaunchHardened ==
    dockerArgs # << >> =>
        /\ \E i \in 1..Len(dockerArgs) :
              dockerArgs[i] = Flag("--security-opt", "no-new-privileges:true")
        /\ \E i \in 1..Len(dockerArgs) : dockerArgs[i] = Flag("--cap-drop", "ALL")
        /\ \A i \in 1..Len(dockerArgs) :
              /\ dockerArgs[i].key = "--cap-add" =>
                    dockerArgs[i].val \in {Lit("CHOWN"), Lit("SETUID"), Lit("SETGID"),
                                           Lit("DAC_OVERRIDE")}
              /\ dockerArgs[i].key # "--privileged"

\* C23: (the claim as stated) in the argument list of every launch the mount
\* whose source is the SSH agent socket is there and carries the option ro.
C23_SshSocketReadOnly ==
    dockerArgs # << >> =>
        /\ \E i \in 1..Len(dockerArgs) :
              dockerArgs[i].kind = "-v" /\ dockerArgs[i].val = Str(sshAuthSock)
        /\ \A i \in 1..Len(dockerArgs) :
              (dockerArgs[i].kind = "-v" /\ dockerArgs[i].val = Str(sshAuthSock)) =>
                  dockerArgs[i].opt = "ro"

\* C24: (the claim as stated) in a launch of the launcher with the staging
\* mounts, each of the categories localShare, config and alternative that
\* discovery resolved to a path has a read-only mount of that path and an
\* environment variable whose value is the mount's destination; a category
\* without a path has neither its mount nor its variable.
C24_ConfigMountsPerCategory ==
    (variant = 1 /\ dockerArgs # << >>) =>
        /\ \A cat \in {"localShare", "config", "alternative"} :
              openCodeConfigs[cat] # << >> =>
                 \E i \in 1..Len(dockerArgs), j \in 1..Len(dockerArgs) :
                    /\ dockerArgs[i].kind = "-v"
                    /\ dockerArgs[i].val = Str(openCodeConfigs[cat])
                    /\ dockerArgs[i].opt = "ro"
                    /\ dockerArgs[j].kind = "-e"
                    /\ dockerArgs[j].val = dockerArgs[i].dst
        /\ openCodeConfigs.localShare = << >> =>
              \A i \in 1..Len(dockerArgs) :
                 /\ dockerArgs[i].key # "HOST_OPENCODE_LOCAL_SHARE"
                 /\ dockerArgs[i].dst # Lit("/tmp/host-opencode-local-share")
        /\ openCodeConfigs.config = << >> =>
              \A i \in 1..Len(dockerArgs) :
                 /\ dockerArgs[i].key # "HOST_OPENCODE_CONFIG"
                 /\ dockerArgs[i].dst # Lit("/tmp/host-opencode-config")

\* C25: in the launcher with the termination handlers, while the child is
\* alive no volume removal has been requested, both volumes exist, the
\* session is Running and the process runs, also after a failed stop request;
\* a volume removal is only ever added by the step that handles the child's
\* exit; a step that handles a signal adds no removal, removes no volume and
\* does not end the process.
C25_RemovalOnlyFromExitHandler ==
    /\ [](variant = 1 /\ child = "alive" =>
            /\ RmCount(calls) = 0
            /\ volumes = {stateVolume(timestamp), workspaceVolume(timestamp)}
            /\ session = "Running"
            /\ pc = "running")
    /\ [][(variant = 1 /\ RmCount(calls') # RmCount(calls)) =>
             (child = "exited" /\ child' = "reaped" /\ sigs' = sigs)]_vars
    /\ [][(variant = 1 /\ pc = "running" /\ sigs' # sigs) =>
             (/\ RmCount(calls') = RmCount(calls)
              /\ volumes' = volumes
              /\ pc' = "running"
              /\ exitCode' = exitCode)]_vars

C25_Witness ==
    /\ variant = 1
    /\ child = "alive"
    /\ session = "Running"
    /\ sigs = 2
    /\ \A i \in CallIdx("docker stop") : calls[i].out = "error"
    /\ RmCount(calls) = 0

\* C26: in the launcher with the termination handlers, a signal that arrives
\* before the spawn finds no listener: the process ends and no stop is
\* requested.  From the spawn on every signal is handled, however many came
\* before, and one handled after the child has exited appends one stop
\* request for this session's container to the calls, logs it, and changes
\* nothing else: no volume removal, no change of the volumes, of the session
\* or of the process.
C26_LateSignalOnlyStops ==
    /\ [][(variant = 1 /\ sigs' # sigs /\ pc # "running") =>
             (calls' = calls /\ pc' = "exited")]_vars
    /\ [][(variant = 1 /\ sigs' # sigs /\ pc = "running") =>
             (/\ Len(calls') = Len(calls) + 1
              /\ SubSeq(calls', 1, Len(calls)) = calls
              /\ calls'[Len(calls')].cmd = "docker stop"
              /\ calls'[Len(calls')].target = containerName(timestamp)
              /\ pc' = "running")]_vars
    /\ [][(variant = 1 /\ sigs' # sigs /\ pc = "running" /\ child \in {"exited", "reaped"}) =>
             (/\ RmCount(calls') = RmCount(calls)
              /\ UNCHANGED << pc, exitCode, abort, child, childCode, volumes, session,
                              cleaned, dockerArgs, timestamp, checks, validated,
                              repoInfo, image, found >>)]_vars

C26_Witness ==
    /\ variant = 1
    /\ child = "reaped"
    /\ cleaned = 1
    /\ sigs = 2
    /\ RmCount(calls) = 2
    /\ calls[Len(calls)].cmd = "docker stop"
    /\ calls[Len(calls) - 1].cmd = "docker stop"
    /\ calls[Len(calls)].target = containerName(timestamp)
====
